---- MODULE Spec2Model ----
(***************************************************************************)
(* HDC1080 temperature/humidity driver (src/amu_hdc1080.py).               *)
(*                                                                         *)
(* Two driver instances, each bound to its own device, are driven through  *)
(* construction (__init__) and the three read operations (temperature,     *)
(* humidity, temperature_and_humidity).  A read exchange is modelled line  *)
(* by line (enter the bus, stage the register, write, sleep, readinto,     *)
(* exit, unpack); an access through a register descriptor (_device_id,     *)
(* _software_reset, ...) is one step, made with the bus held.              *)
(*                                                                         *)
(* Time is counted in units of 10 microseconds: 15 ms = 1500 units,        *)
(* 6.35 ms = 635 units, 63.5 ms = 6350 units.                              *)
(* Results are kept scaled by 2^16, which is exact for the float           *)
(* expressions of the source (a division by a power of two).               *)
(***************************************************************************)
EXTENDS Integers, Sequences, FiniteSets, TLC

VARIABLES
    threads,    \* TRUE: the instances are called from concurrent threads
    bus,        \* bus[d]: the I2C bus instance d is bound to
    devId,      \* devId[d]: content of the device-ID register of d's device
    conf,       \* conf[d]: configuration register of d's device
    lock,       \* lock[b]: 0 when bus b is free, else the instance holding it
    BUFFER,     \* HDC1080._BUFFER, the class-level bytearray(5)
    pc,         \* pc[d]: position of the call running on instance d
    op,         \* op[d]: the operation last called on d
    arg,        \* arg[d]: the mode argument given to the constructor
    mode,       \* mode[d]: self.mode
    log,        \* log[d]: the bus events of the operation last called on d
    outcome,    \* outcome[d]: what the operation last called on d gave back
    delivered,  \* delivered[d]: bytes d's device sent in the last result read
    intruded    \* intruded[d]: another transfer hit d's bus inside an exchange

vars == <<threads, bus, devId, conf, lock, BUFFER, pc, op, arg, mode, log,
          outcome, delivered, intruded>>

----------------------------------------------------------------------------
(* Constants of the source *)

HDC1080_DEVICE_ID == 4176       \* 0x1050
REG_TEMP == 0
REG_HUMI == 1
REG_DEID == 255
READ_BOTH_VALUES == 1
READ_SINGLE_VALUE == 0

SoftwareResetBit == 15
TempResolutionBit == 10
HumidityResolutionLowestBit == 8
HumidityResolutionNumBits == 2
OperationModeBit == 12

MinSettle == 1500               \* "Sleep for 15 ms"
MinConversion == 635            \* "wait for 6.35 ms"
SleepResetMut == MinSettle \div 10              \* a slipped decimal point
SleepConversionMut == MinConversion \div 10     \* a slipped decimal point
SleepReset == 1500              \* time.sleep(0.015)
SleepConversion == 6350         \* time.sleep(0.0635)

BufferLen == 5                  \* bytearray(5)
ConfDefault == 4096             \* 0x1000: the device's register after a reset

(* Bounds of the model *)
MaxJitter == 1                  \* a sleep may last up to this much longer

Inst == {1, 2}
Buses == {1, 2}
Modes == {READ_SINGLE_VALUE, READ_BOTH_VALUES}
DeviceIds == {HDC1080_DEVICE_ID, 20496, 0}      \* 0x1050, 0x5010, 0
ConfInit == {ConfDefault, 1792}                 \* 0x1000, 0x0700
RawWords == {0, 65535, 26214}                   \* 0x0000, 0xFFFF, 0x6666

Scale == 2 ^ 16

----------------------------------------------------------------------------
(* Pure functions *)

Bytes16(w) == <<w \div 256, w % 256>>

\* struct.unpack_from(">H", buf, off): buf is a function on 0..Len-1
UnpackU16BE(buf, off) == buf[off] * 256 + buf[off + 1]

\* struct.unpack_from(">h", buf, off)
UnpackS16BE(buf, off) ==
    LET u == buf[off] * 256 + buf[off + 1]
    IN  IF u >= 32768 THEN u - 65536 ELSE u

\* _convert_to_celsius, scaled by 2^16
ConvertToCelsius(raw) == raw * 165 - 40 * Scale

\* _convert_to_relative_humidity, scaled by 2^16
ConvertToRelativeHumidity(raw) == raw * 100

BitOf(v, bit) == (v \div (2 ^ bit)) % 2

\* the descriptor declared without lsb_first=False: byte bit // 8 + 1
RWBitSetMut(v, bit, value) ==
    LET b    == Bytes16(v)
        idx  == (bit \div 8) + 1
        mask == 2 ^ (bit % 8)
        cur  == (b[idx] \div mask) % 2
        nb   == IF value # 0 THEN b[idx] + (1 - cur) * mask
                             ELSE b[idx] - cur * mask
        out  == [b EXCEPT ![idx] = nb]
    IN  out[1] * 256 + out[2]

\* RWBit(register, bit, register_width=2, lsb_first=False).__set__: the
\* register as read from the wire (two bytes, big-endian), with the bit set
\* or cleared in byte register_width - bit // 8 of the buffer
RWBitSet(v, bit, value) ==
    LET b    == Bytes16(v)
        idx  == 2 - (bit \div 8)
        mask == 2 ^ (bit % 8)
        cur  == (b[idx] \div mask) % 2
        nb   == IF value # 0 THEN b[idx] + (1 - cur) * mask
                             ELSE b[idx] - cur * mask
        out  == [b EXCEPT ![idx] = nb]
    IN  out[1] * 256 + out[2]

\* RWBits.__set__: the register value with num bits at lowest replaced
RWBitsSet(v, num, lowest, value) ==
    LET old == (v \div (2 ^ lowest)) % (2 ^ num)
    IN  v - old * (2 ^ lowest) + value * (2 ^ lowest)

\* The device's answer to a write of its configuration register: the reset
\* bit restores the defaults and clears itself.
DeviceWriteConf(v) ==
    IF BitOf(v, SoftwareResetBit) = 1 THEN ConfDefault ELSE v

----------------------------------------------------------------------------
(* State *)

NoOutcome == [kind |-> "none", val |-> <<>>]
Raise(k) == [kind |-> k, val |-> <<>>]
Return(v) == [kind |-> "ok", val |-> v]
Ev(kind, a) == <<kind, a>>

Init ==
    /\ threads = FALSE
    /\ bus \in {[d \in Inst |-> 1], [d \in Inst |-> d]}
    /\ devId \in [Inst -> DeviceIds]
    /\ conf \in [Inst -> ConfInit]
    /\ lock = [b \in Buses |-> 0]
    /\ BUFFER = [i \in 0..(BufferLen - 1) |-> 0]
    /\ pc = [d \in Inst |-> "new"]
    /\ op = [d \in Inst |-> "none"]
    /\ arg = [d \in Inst |-> -1]
    /\ mode = [d \in Inst |-> -1]
    /\ log = [d \in Inst |-> <<>>]
    /\ outcome = [d \in Inst |-> NoOutcome]
    /\ delivered = [d \in Inst |-> <<>>]
    /\ intruded = [d \in Inst |-> FALSE]

\* The same, with the instances called from concurrent threads
InitThreads ==
    /\ threads = TRUE
    /\ bus \in {[d \in Inst |-> 1], [d \in Inst |-> d]}
    /\ devId = [d \in Inst |-> HDC1080_DEVICE_ID]
    /\ conf = [d \in Inst |-> ConfDefault]
    /\ lock = [b \in Buses |-> 0]
    /\ BUFFER = [i \in 0..(BufferLen - 1) |-> 0]
    /\ pc = [d \in Inst |-> "new"]
    /\ op = [d \in Inst |-> "none"]
    /\ arg = [d \in Inst |-> -1]
    /\ mode = [d \in Inst |-> -1]
    /\ log = [d \in Inst |-> <<>>]
    /\ outcome = [d \in Inst |-> NoOutcome]
    /\ delivered = [d \in Inst |-> <<>>]
    /\ intruded = [d \in Inst |-> FALSE]

AtRest(d) == pc[d] \in {"new", "ready", "failed"}

\* A call starts at any time under threads; otherwise only when no other
\* call is running (one thread of control).
CanCall(d) == threads \/ \A e \in Inst \ {d} : AtRest(e)

\* busio.I2C.try_lock, as I2CDevice.__enter__ spins on it
TryLock(b) == lock[b] = 0

\* between the register-select write and the result read
InExchange(d) == pc[d] \in {"r_sleep", "r_read"}

\* a transfer by e on its bus, seen by the exchanges running on that bus
Intrude(e) ==
    [d \in Inst |-> IF d # e /\ bus[d] = bus[e] /\ InExchange(d)
                    THEN TRUE ELSE intruded[d]]

----------------------------------------------------------------------------
(* __init__ *)

\* the check left out
DeviceIdMatchesMut(id) == TRUE

\* _device_id != _HDC1080_DEVICE_ID is what raises
DeviceIdMatches(id) == id = HDC1080_DEVICE_ID

\* I2CDevice(i2c, address) probes the address; self.mode = mode
New(d) ==
    /\ pc[d] = "new"
    /\ CanCall(d)
    /\ TryLock(bus[d])
    /\ \E m \in Modes, ok \in BOOLEAN :
        /\ arg' = [arg EXCEPT ![d] = m]
        /\ mode' = [mode EXCEPT ![d] = IF ok THEN m ELSE @]
        /\ log' = [log EXCEPT ![d] =
                      <<Ev(IF ok THEN "probe" ELSE "xfer_fail", 0)>>]
        /\ pc' = [pc EXCEPT ![d] = IF ok THEN "c_id" ELSE "failed"]
        /\ outcome' = [outcome EXCEPT ![d] =
                          IF ok THEN NoOutcome ELSE Raise("BusError")]
    /\ op' = [op EXCEPT ![d] = "construct"]
    /\ intruded' = Intrude(d)
    /\ UNCHANGED <<threads, bus, devId, conf, lock, BUFFER, delivered>>

\* if self._device_id != _HDC1080_DEVICE_ID: raise RuntimeError
ReadDeviceId(d) ==
    /\ pc[d] = "c_id"
    /\ TryLock(bus[d])
    /\ \E ok \in BOOLEAN :
        LET wire == Bytes16(devId[d])
            buf  == [i \in 0..2 |-> IF i = 0 THEN REG_DEID ELSE wire[i]]
            id   == UnpackU16BE(buf, 1)
        IN  /\ log' = [log EXCEPT ![d] =
                          Append(@, IF ok THEN Ev("id_read", id)
                                          ELSE Ev("xfer_fail", 0))]
            /\ pc' = [pc EXCEPT ![d] =
                         IF ok /\ DeviceIdMatches(id) THEN "c_reset"
                                                      ELSE "failed"]
            /\ outcome' = [outcome EXCEPT ![d] =
                              IF ~ok THEN Raise("BusError")
                              ELSE IF DeviceIdMatches(id) THEN @
                              ELSE Raise("DeviceNotFound")]
    /\ intruded' = Intrude(d)
    /\ UNCHANGED <<threads, bus, devId, conf, lock, BUFFER, op, arg, mode,
                   delivered>>

\* One descriptor __set__ on the configuration register: with the bus held,
\* read the register, change the bits, write it back.
ConfAccess(d, v, next, done) ==
    /\ TryLock(bus[d])
    /\ \E fail \in {"none", "read", "write"} :
        /\ log' = [log EXCEPT ![d] = @ \o
                      (CASE fail = "read" -> <<Ev("xfer_fail", 0)>>
                         [] fail = "write" -> <<Ev("conf_read", conf[d]),
                                                Ev("xfer_fail", 0)>>
                         [] OTHER -> <<Ev("conf_read", conf[d]),
                                       Ev("conf_write", v)>>)]
        /\ conf' = IF fail = "none"
                   THEN [conf EXCEPT ![d] = DeviceWriteConf(v)] ELSE conf
        /\ pc' = [pc EXCEPT ![d] = IF fail = "none" THEN next ELSE "failed"]
        /\ outcome' = [outcome EXCEPT ![d] =
                          IF fail # "none" THEN Raise("BusError")
                          ELSE IF done THEN Return(<<>>) ELSE @]
    /\ intruded' = Intrude(d)
    /\ UNCHANGED <<threads, bus, devId, lock, BUFFER, op, arg, mode,
                   delivered>>

\* self._software_reset = 0x1
SoftwareReset(d) ==
    /\ pc[d] = "c_reset"
    /\ ConfAccess(d, RWBitSet(conf[d], SoftwareResetBit, 1), "c_sleep", FALSE)

\* time.sleep(0.015)
SettleSleep(d) ==
    /\ pc[d] = "c_sleep"
    /\ \E j \in 0..MaxJitter :
        log' = [log EXCEPT ![d] = Append(@, Ev("sleep", SleepReset + j))]
    /\ pc' = [pc EXCEPT ![d] = "c_tres"]
    /\ UNCHANGED <<threads, bus, devId, conf, lock, BUFFER, op, arg, mode,
                   outcome, delivered, intruded>>

\* self._temp_resolution = 0x00
SetTempResolution(d) ==
    /\ pc[d] = "c_tres"
    /\ ConfAccess(d, RWBitSet(conf[d], TempResolutionBit, 0), "c_hres", FALSE)

\* self._humidity_resolution = 0x00
SetHumidityResolution(d) ==
    /\ pc[d] = "c_hres"
    /\ ConfAccess(d, RWBitsSet(conf[d], HumidityResolutionNumBits,
                               HumidityResolutionLowestBit, 0),
                  "c_mode", FALSE)

\* self._operation_mode = mode
SetOperationMode(d) ==
    /\ pc[d] = "c_mode"
    /\ ConfAccess(d, RWBitSet(conf[d], OperationModeBit, arg[d]), "ready", TRUE)


----------------------------------------------------------------------------
(* temperature, humidity, temperature_and_humidity *)

\* the check of the other operation, pasted into this one
SingleReadRefusedMut(m) == m = READ_SINGLE_VALUE

\* if self.mode == READ_BOTH_VALUES: raise RuntimeError("Wrong mode, ...")
SingleReadRefused(m) == m = READ_BOTH_VALUES

\* if self.mode == READ_SINGLE_VALUE: raise RuntimeError("Wrong mode, ...")
BothReadRefused(m) == m = READ_SINGLE_VALUE

Refused(o, m) ==
    IF o = "both" THEN BothReadRefused(m) ELSE SingleReadRefused(m)

\* the register a read operation selects
Register(o) == IF o = "humidity" THEN REG_HUMI ELSE REG_TEMP

\* readinto(self._BUFFER, start=1, end=3) / readinto(self._BUFFER, start=1)
ReadEnd(o) == IF o = "both" THEN BufferLen ELSE 3

\* The call of a read operation: the mode check, then into the exchange
Call(d, o) ==
    /\ pc[d] = "ready"
    /\ CanCall(d)
    /\ op' = [op EXCEPT ![d] = o]
    /\ log' = [log EXCEPT ![d] = <<>>]
    /\ delivered' = [delivered EXCEPT ![d] = <<>>]
    /\ intruded' = [intruded EXCEPT ![d] = FALSE]
    /\ IF Refused(o, mode[d])
       THEN /\ outcome' = [outcome EXCEPT ![d] = Raise("WrongMode")]
            /\ pc' = pc
       ELSE /\ outcome' = [outcome EXCEPT ![d] = NoOutcome]
            /\ pc' = [pc EXCEPT ![d] = "r_enter"]
    /\ UNCHANGED <<threads, bus, devId, conf, lock, BUFFER, arg, mode>>

Temperature(d) == Call(d, "temperature")

Humidity(d) == Call(d, "humidity")

TemperatureAndHumidity(d) == Call(d, "both")

\* with self.i2c_device as i2c: (__enter__ waits for the bus lock)
Enter(d) ==
    /\ pc[d] = "r_enter"
    /\ TryLock(bus[d])
    /\ lock' = [lock EXCEPT ![bus[d]] = d]
    /\ pc' = [pc EXCEPT ![d] = "r_stage"]
    /\ UNCHANGED <<threads, bus, devId, conf, BUFFER, op, arg, mode, log,
                   outcome, delivered, intruded>>

\* self._BUFFER[0] = register & 0xFF
Stage(d) ==
    /\ pc[d] = "r_stage"
    /\ BUFFER' = [BUFFER EXCEPT ![0] = Register(op[d]) % 256]
    /\ pc' = [pc EXCEPT ![d] = "r_write"]
    /\ UNCHANGED <<threads, bus, devId, conf, lock, op, arg, mode, log,
                   outcome, delivered, intruded>>

\* i2c.write(self._BUFFER, end=1)
SelectWrite(d) ==
    /\ pc[d] = "r_write"
    /\ \E ok \in BOOLEAN :
        /\ log' = [log EXCEPT ![d] =
                      Append(@, IF ok THEN Ev("sel_write", BUFFER[0])
                                      ELSE Ev("xfer_fail", 0))]
        /\ pc' = [pc EXCEPT ![d] = IF ok THEN "r_sleep" ELSE "r_raise"]
    /\ intruded' = Intrude(d)
    /\ UNCHANGED <<threads, bus, devId, conf, lock, BUFFER, op, arg, mode,
                   outcome, delivered>>

\* time.sleep(0.0635)
ConversionSleep(d) ==
    /\ pc[d] = "r_sleep"
    /\ \E j \in 0..MaxJitter :
        log' = [log EXCEPT ![d] = Append(@, Ev("sleep", SleepConversion + j))]
    /\ pc' = [pc EXCEPT ![d] = "r_read"]
    /\ UNCHANGED <<threads, bus, devId, conf, lock, BUFFER, op, arg, mode,
                   outcome, delivered, intruded>>

\* i2c.readinto(self._BUFFER, start=1, end=...): the device sends the
\* converted words, most significant byte first
ResultRead(d) ==
    /\ pc[d] = "r_read"
    /\ LET end == ReadEnd(op[d])
       IN  \E ok \in BOOLEAN, w1 \in RawWords,
              w2 \in (IF end - 1 > 2 THEN RawWords ELSE {0}) :
            LET wire == SubSeq(Bytes16(w1) \o Bytes16(w2), 1, end - 1)
            IN  IF ok
                THEN /\ BUFFER' = [i \in 0..(BufferLen - 1) |->
                                     IF 1 <= i /\ i < end THEN wire[i]
                                                          ELSE BUFFER[i]]
                     /\ delivered' = [delivered EXCEPT ![d] = wire]
                     /\ log' = [log EXCEPT ![d] =
                                   Append(@, Ev("res_read", end - 1))]
                     /\ pc' = [pc EXCEPT ![d] = "r_exit"]
                ELSE /\ log' = [log EXCEPT ![d] =
                                   Append(@, Ev("xfer_fail", 0))]
                     /\ pc' = [pc EXCEPT ![d] = "r_raise"]
                     /\ UNCHANGED <<BUFFER, delivered>>
    /\ intruded' = Intrude(d)
    /\ UNCHANGED <<threads, bus, devId, conf, lock, op, arg, mode, outcome>>

\* I2CDevice.__exit__: self.i2c.unlock()
Unlock(b) == [lock EXCEPT ![b] = 0]

\* the end of the with block
Exit(d) ==
    /\ pc[d] = "r_exit"
    /\ lock' = Unlock(bus[d])
    /\ pc' = [pc EXCEPT ![d] = "r_unpack"]
    /\ UNCHANGED <<threads, bus, devId, conf, BUFFER, op, arg, mode, log,
                   outcome, delivered, intruded>>

\* the bus not released when the block is left by an exception
UnlockOnErrorMut(b) == lock

\* the exception swallowed and the buffer unpacked all the same
TransferFailedMut(d) ==
    Return(CASE op[d] = "temperature" ->
                   <<ConvertToCelsius(UnpackS16BE(BUFFER, 1))>>
             [] op[d] = "humidity" ->
                   <<ConvertToRelativeHumidity(UnpackS16BE(BUFFER, 1))>>
             [] OTHER ->
                   <<ConvertToCelsius(UnpackS16BE(BUFFER, 1)),
                     ConvertToRelativeHumidity(UnpackS16BE(BUFFER, 3))>>)

\* the with block left by the exception of a transfer
UnlockOnError(b) == Unlock(b)

\* what a read operation gives its caller when a transfer raised: there is
\* no handler, the exception leaves the operation
TransferFailed(d) == Raise("BusError")

ExitRaise(d) ==
    /\ pc[d] = "r_raise"
    /\ lock' = UnlockOnError(bus[d])
    /\ outcome' = [outcome EXCEPT ![d] = TransferFailed(d)]
    /\ pc' = [pc EXCEPT ![d] = "ready"]
    /\ UNCHANGED <<threads, bus, devId, conf, BUFFER, op, arg, mode, log,
                   delivered, intruded>>

\* struct.unpack_from(struct_format, self._BUFFER, 1)[0] (and at 3), then
\* the conversions of the calling operation
Values(o, buf) ==
    CASE o = "temperature" -> <<ConvertToCelsius(UnpackS16BE(buf, 1))>>
      [] o = "humidity" -> <<ConvertToRelativeHumidity(UnpackS16BE(buf, 1))>>
      [] OTHER -> <<ConvertToCelsius(UnpackS16BE(buf, 1)),
                    ConvertToRelativeHumidity(UnpackS16BE(buf, 3))>>

Unpack(d) ==
    /\ pc[d] = "r_unpack"
    /\ outcome' = [outcome EXCEPT ![d] = Return(Values(op[d], BUFFER))]
    /\ pc' = [pc EXCEPT ![d] = "ready"]
    /\ UNCHANGED <<threads, bus, devId, conf, lock, BUFFER, op, arg, mode,
                   log, delivered, intruded>>

----------------------------------------------------------------------------
(* Specifications *)

Next ==
    \E d \in Inst :
        \/ New(d)
        \/ ReadDeviceId(d)
        \/ SoftwareReset(d)
        \/ SettleSleep(d)
        \/ SetTempResolution(d)
        \/ SetHumidityResolution(d)
        \/ SetOperationMode(d)
        \/ Temperature(d)
        \/ Humidity(d)
        \/ TemperatureAndHumidity(d)
        \/ Enter(d)
        \/ Stage(d)
        \/ SelectWrite(d)
        \/ ConversionSleep(d)
        \/ ResultRead(d)
        \/ Exit(d)
        \/ ExitRaise(d)
        \/ Unpack(d)

\* one thread of control: calls run one after the other
Spec == Init /\ [][Next]_vars

\* the instances called from concurrent threads
SpecThreads == InitThreads /\ [][Next]_vars

----------------------------------------------------------------------------
(* Properties *)

ReadOps == {"temperature", "humidity", "both"}

Count(l, k) == Cardinality({i \in 1..Len(l) : l[i][1] = k})

IsResetWrite(e) == e[1] = "conf_write" /\ BitOf(e[2], SoftwareResetBit) = 1

IsConfigWrite(e) == e[1] = "conf_write" /\ BitOf(e[2], SoftwareResetBit) = 0

\* an instance whose constructor has returned
Constructed(d) == pc[d] \notin {"new", "failed"} /\ pc[d] \notin
                     {"c_id", "c_reset", "c_sleep", "c_tres", "c_hres", "c_mode"}

\* the buffer a read would unpack if it held only what the device sent
FromWire(wire) ==
    [i \in 0..(BufferLen - 1) |-> IF 1 <= i /\ i <= Len(wire) THEN wire[i] ELSE 0]

Near(x, target) == x - target <= Scale \div 100 /\ target - x <= Scale \div 100

\* C1: with the mode given to the constructor, temperature and humidity are
\* refused (WrongMode, no bus access) exactly in the combined mode and
\* temperature_and_humidity exactly in the single-value mode; the other
\* operations are accepted, at every call.
C1_ModeGate ==
    \A d \in Inst :
        (Constructed(d) /\ op[d] \in ReadOps) =>
            LET refuse ==
                    \/ op[d] \in {"temperature", "humidity"}
                         /\ arg[d] = READ_BOTH_VALUES
                    \/ op[d] = "both" /\ arg[d] = READ_SINGLE_VALUE
            IN  /\ arg[d] \in Modes
                /\ IF refuse
                   THEN /\ pc[d] = "ready"
                        /\ outcome[d].kind = "WrongMode"
                        /\ log[d] = <<>>
                   ELSE /\ outcome[d].kind # "WrongMode"
                        /\ pc[d] = "ready" =>
                              outcome[d].kind \in {"ok", "BusError"}

C1_Witness ==
    \E d \in Inst, e \in Inst :
        /\ pc[d] = "ready" /\ op[d] = "temperature"
        /\ arg[d] = READ_BOTH_VALUES /\ outcome[d].kind = "WrongMode"
        /\ pc[e] = "ready" /\ op[e] = "both"
        /\ arg[e] = READ_SINGLE_VALUE /\ outcome[e].kind = "WrongMode"

\* C2: with any other device ID than 0x1050 the constructor fails with
\* DeviceNotFound once the ID is read: no instance results, and no write of
\* the configuration register (reset or configuration) was issued.
C2_DeviceNotFound ==
    \A d \in Inst :
        /\ devId[d] # HDC1080_DEVICE_ID => ~Constructed(d)
        /\ (devId[d] # HDC1080_DEVICE_ID /\ Count(log[d], "id_read") > 0) =>
              /\ pc[d] = "failed"
              /\ outcome[d].kind = "DeviceNotFound"
              /\ Count(log[d], "conf_write") = 0
              /\ Count(log[d], "conf_read") = 0
        /\ pc[d] = "failed" => op[d] = "construct"

C2_Witness ==
    \E d \in Inst :
        /\ pc[d] = "failed" /\ outcome[d].kind = "DeviceNotFound"
        /\ devId[d] = 20496

\* C3: in the constructor the ID read comes before the reset write, the
\* reset write is followed at once by a sleep of at least 15 ms, and the
\* configuration writes come after that sleep; a constructor that returned
\* has issued one ID read, one reset write and the three configuration
\* writes.
C3_ConstructOrder ==
    \A d \in Inst :
        op[d] = "construct" =>
            /\ \A i \in 1..Len(log[d]) :
                  /\ IsResetWrite(log[d][i]) =>
                        /\ \E j \in 1..(i - 1) : log[d][j][1] = "id_read"
                        /\ i < Len(log[d]) =>
                              /\ log[d][i + 1][1] = "sleep"
                              /\ log[d][i + 1][2] >= MinSettle
                  /\ IsConfigWrite(log[d][i]) =>
                        \E j \in 1..(i - 1) :
                            /\ log[d][j][1] = "sleep"
                            /\ log[d][j][2] >= MinSettle
                            /\ j > 1
                            /\ IsResetWrite(log[d][j - 1])
            /\ pc[d] = "ready" =>
                  /\ Count(log[d], "id_read") = 1
                  /\ Cardinality({i \in 1..Len(log[d]) :
                                    IsResetWrite(log[d][i])}) = 1
                  /\ Cardinality({i \in 1..Len(log[d]) :
                                    IsConfigWrite(log[d][i])}) = 3
                  /\ Count(log[d], "sleep") = 1

C3_Witness ==
    \E d \in Inst :
        /\ op[d] = "construct" /\ pc[d] = "ready" /\ outcome[d].kind = "ok"
        /\ Len(log[d]) = 11
        /\ log[d][5] = Ev("sleep", SleepReset)

\* C4: an accepted read issues one register-select write and then at most
\* one result read, with a sleep of at least 6.35 ms between them; a read
\* that returned a value issued both.
C4_ReadExchange ==
    \A d \in Inst :
        (op[d] \in ReadOps) =>
            /\ Count(log[d], "sel_write") <= 1
            /\ Count(log[d], "res_read") <= 1
            /\ \A j \in 1..Len(log[d]) :
                  log[d][j][1] = "res_read" =>
                      \E i \in 1..(j - 1) :
                          /\ log[d][i][1] = "sel_write"
                          /\ \E k \in (i + 1)..(j - 1) :
                                /\ log[d][k][1] = "sleep"
                                /\ log[d][k][2] >= MinConversion
            /\ (pc[d] = "ready" /\ outcome[d].kind = "ok") =>
                  /\ Count(log[d], "sel_write") = 1
                  /\ Count(log[d], "res_read") = 1

C4_Witness ==
    \E d \in Inst :
        /\ op[d] = "humidity" /\ pc[d] = "ready" /\ outcome[d].kind = "ok"
        /\ log[d] = <<Ev("sel_write", REG_HUMI),
                      Ev("sleep", SleepConversion + MaxJitter),
                      Ev("res_read", 2)>>

\* C5: in the combined mode, when the device sends 00 00 FF FF,
\* temperature_and_humidity returns (-40.0, about 100.0).
C5_Claim ==
    \A d \in Inst :
        (pc[d] = "ready" /\ op[d] = "both" /\ outcome[d].kind = "ok"
            /\ delivered[d] = <<0, 0, 255, 255>>) =>
            /\ outcome[d].val[1] = -40 * Scale
            /\ Near(outcome[d].val[2], 100 * Scale)

\* C6: register content 0 gives -40.0 C and 0.0 %RH, register content
\* FF FF gives about 125.0 C and about 100.0 %RH, and every result lies in
\* [-40, 125] C and [0, 100] %RH.
C6_Claim ==
    \A d \in Inst :
        (pc[d] = "ready" /\ outcome[d].kind = "ok") =>
            /\ op[d] = "temperature" =>
                  /\ outcome[d].val[1] >= -40 * Scale
                  /\ outcome[d].val[1] <= 125 * Scale
                  /\ delivered[d] = <<0, 0>> =>
                        outcome[d].val[1] = -40 * Scale
                  /\ delivered[d] = <<255, 255>> =>
                        Near(outcome[d].val[1], 125 * Scale)
            /\ op[d] = "humidity" =>
                  /\ outcome[d].val[1] >= 0
                  /\ outcome[d].val[1] <= 100 * Scale
                  /\ delivered[d] = <<0, 0>> => outcome[d].val[1] = 0
                  /\ delivered[d] = <<255, 255>> =>
                        Near(outcome[d].val[1], 100 * Scale)

\* C7: every read returns the conversion of the bytes its own device sent
\* in that read, whatever the other instance does meanwhile.
C7_Claim ==
    \A d \in Inst :
        (pc[d] = "ready" /\ op[d] \in ReadOps /\ outcome[d].kind = "ok") =>
            outcome[d].val = Values(op[d], FromWire(delivered[d]))

\* C8: a read operation whose transfer failed gives BusError and no value;
\* the failed transfer is the last thing it tried, and it tried it once. An
\* operation that returns values had no failed transfer, and
\* temperature_and_humidity returns both values or none.
C8_BusError ==
    \A d \in Inst :
        (op[d] \in ReadOps) =>
            /\ Count(log[d], "xfer_fail") <= 1
            /\ \A i \in 1..Len(log[d]) :
                  log[d][i][1] = "xfer_fail" => i = Len(log[d])
            /\ (pc[d] = "ready" /\ Count(log[d], "xfer_fail") = 1) =>
                  /\ outcome[d].kind = "BusError"
                  /\ outcome[d].val = <<>>
                  /\ Count(log[d], "sel_write") + Count(log[d], "res_read")
                        <= 1
            /\ outcome[d].kind = "ok" =>
                  /\ Count(log[d], "xfer_fail") = 0
                  /\ Len(outcome[d].val) = IF op[d] = "both" THEN 2 ELSE 1
            /\ outcome[d].kind # "ok" => outcome[d].val = <<>>

C8_Witness ==
    \E d \in Inst :
        /\ op[d] = "both" /\ pc[d] = "ready"
        /\ outcome[d].kind = "BusError"
        /\ Len(log[d]) = 3
        /\ log[d][1] = Ev("sel_write", REG_TEMP)
        /\ log[d][3] = Ev("xfer_fail", 0)
        /\ BUFFER[1] = 255

\* C9: once the constructor has returned, and through all later reads, the
\* device's configuration register has bit 12 equal to the mode given,
\* bit 10 = 0, bits 9-8 = 00 and bit 15 = 0, self.mode equals bit 12, and
\* no read operation writes the configuration register.
C9_Config ==
    \A d \in Inst :
        Constructed(d) =>
            /\ BitOf(conf[d], OperationModeBit) = arg[d]
            /\ BitOf(conf[d], TempResolutionBit) = 0
            /\ BitOf(conf[d], 9) = 0
            /\ BitOf(conf[d], 8) = 0
            /\ BitOf(conf[d], SoftwareResetBit) = 0
            /\ mode[d] = BitOf(conf[d], OperationModeBit)
            /\ op[d] \in ReadOps =>
                  /\ Count(log[d], "conf_write") = 0
                  /\ Count(log[d], "conf_read") = 0

C9_Witness ==
    \E d \in Inst :
        /\ pc[d] = "ready" /\ op[d] = "humidity" /\ outcome[d].kind = "ok"
        /\ arg[d] = READ_SINGLE_VALUE
        /\ conf[d] = 0

\* C10: from the entry of the with block to its end the instance holds its
\* bus, so that no other transfer happens on that bus between its select
\* write and its result read; the bus is not held by an instance outside
\* the block, whether the block ended normally or by a failed transfer.
C10_BusHeld ==
    /\ \A d \in Inst :
          /\ pc[d] \in {"r_stage", "r_write", "r_sleep", "r_read", "r_exit",
                        "r_raise"} => lock[bus[d]] = d
          /\ pc[d] \notin {"r_stage", "r_write", "r_sleep", "r_read",
                           "r_exit", "r_raise"} =>
                \A b \in Buses : lock[b] # d
          /\ ~intruded[d]
    /\ \A b \in Buses : lock[b] # 0 => bus[lock[b]] = b

C10_Witness ==
    \E d \in Inst, e \in Inst :
        /\ d # e /\ bus[d] = bus[e]
        /\ pc[d] = "r_sleep" /\ lock[bus[d]] = d
        /\ pc[e] = "r_enter"
        /\ log[d] = <<Ev("sel_write", REG_TEMP)>>

====
